---- MODULE Spec2Model ----
(***************************************************************************)
(* Model of the webpack configuration builder of lib-webpack-template      *)
(* (WebpackConfigBuilder, initLibWebpackConfig and the module's exports).  *)
(*                                                                         *)
(* JavaScript values are represented as follows:                           *)
(*   - an object is a function from property names to values; a property   *)
(*     that is absent (or undefined) is absent from the DOMAIN;            *)
(*   - a path string is the sequence of its segments, an absolute path     *)
(*     starting with the segment "/"; the empty string is << >>;           *)
(*   - a string that may be undefined uses the sentinel Undefined;         *)
(*   - the objects a caller passes by reference (define, externals,        *)
(*     library) live in `heap`, the plugin arrays in `arrays`.             *)
(***************************************************************************)
EXTENDS Integers, Sequences, FiniteSets, TLC

VARIABLES
    builders,   \* builder slot -> NoBuilder or the WebpackConfigBuilder instance
    heap,       \* reference -> contents of a caller-visible nested object
    arrays,     \* plugin arrays ever allocated by `this.plugins = []`
    nodeEnv,    \* process.env.NODE_ENV
    resolvable, \* whether require('inspectpack/plugin') resolves in this process
    log,        \* the build calls made so far, with what each returned or threw
    last,       \* the most recent operation and its error, if any
    params0,    \* history: params of each builder when its constructor returned
    heap0       \* history: nested objects of each builder at that moment

vars == <<builders, heap, arrays, nodeEnv, resolvable, log, last, params0, heap0>>

----------------------------------------------------------------------------
\* Bounds

\* the number of build calls in one behaviour
MaxBuilds == 3

Builders == {"b1", "b2"}

----------------------------------------------------------------------------
\* JavaScript values

Undefined == "undefined"

NoBuilder == [constructed |-> FALSE]

EmptyObject == [k \in {} |-> k]

Has(o, k) == k \in DOMAIN o

\* !o[k] for a string-valued property: undefined and '' are falsy
FalsyString(o, k) == ~Has(o, k) \/ o[k] = ""

\* !o[k] for a path-valued property: undefined and '' are falsy
FalsyPath(o, k) == ~Has(o, k) \/ o[k] = << >>

\* !!o[k] for a boolean-valued property
TruthyBool(o, k) == Has(o, k) /\ o[k] = TRUE

\* Object.assign(target, source) / {...target, ...source}: the value of the
\* target afterwards
ObjectAssign(target, source) == source @@ target

\* JSON.stringify of a primitive value [type, s]: a string is quoted, a number
\* or a boolean is its literal
JSONStringify(v) ==
    IF v.type = "string" THEN "\"" \o v.s \o "\"" ELSE v.s

JSONStringifyMode(m) == "\"" \o m \o "\""

----------------------------------------------------------------------------
\* node:path

\* process.cwd() when the module is loaded
defaultProjectRoot == <<"/", "home", "work">>

IsAbsolute(p) == Len(p) > 0 /\ p[1] = "/"

RECURSIVE NormalizeFrom(_, _)
\* the segments seen so far (acc, absolute) extended with the rest
NormalizeFrom(acc, rest) ==
    IF rest = << >> THEN acc
    ELSE LET s == Head(rest)
             acc2 == CASE s = "." -> acc
                       [] s = "/" -> <<"/">>
                       [] s = ".." -> IF Len(acc) > 1 THEN SubSeq(acc, 1, Len(acc) - 1) ELSE acc
                       [] OTHER -> Append(acc, s)
         IN NormalizeFrom(acc2, Tail(rest))

\* path.resolve(from, to): right to left until an absolute path is built, the
\* working directory last, then normalised
PathResolve(from, to) ==
    LET joined == IF IsAbsolute(to) THEN to
                  ELSE IF IsAbsolute(from) THEN from \o to
                  ELSE defaultProjectRoot \o from \o to
    IN NormalizeFrom(<< >>, joined)

----------------------------------------------------------------------------
\* Inputs: what a caller passes to initLibWebpackConfig

Str(s) == [type |-> "string", s |-> s]
Bool(s) == [type |-> "boolean", s |-> s]

NodeEnvKey == "process.env.NODE_ENV"

LibNameOpts == {EmptyObject, [libName |-> ""], [libName |-> "libFoo"]}
InputPathOpts == {EmptyObject, [inputPath |-> << >>], [inputPath |-> <<".", "index.js">>],
                  [inputPath |-> <<"/", "abs", "..", "main.js">>]}
OutputPathOpts == {EmptyObject, [outputPath |-> <<"/", "out">>]}
ProjectRootOpts == {EmptyObject, [projectRoot |-> <<"/", "proj">>], [projectRoot |-> <<"sub">>]}
DefineOpts == {EmptyObject, [define |-> [VERSION |-> Str("1.0")]],
               [define |-> (NodeEnvKey :> Str("test")) @@ [DEBUG |-> Bool("true")]]}
ExternalsOpts == {EmptyObject,
                  [externals |-> ("@stellar/stellar-sdk" :> "StellarSdk") @@ [react |-> "React"]]}
LibraryOpts == {EmptyObject, [library |-> [type |-> "commonjs2"]]}
SourcemapOpts == {EmptyObject, [sourcemap |-> TRUE]}
GlobalObjectOpts == {EmptyObject, [globalObject |-> "self"]}
IgnoreCallbackOpts == {EmptyObject, [ignoreCallback |-> "ignoreMoment"]}
GatherOpts == {EmptyObject, [gatherBundleStats |-> TRUE]}

\* every combination of the fields of WebpackBuilderParams
WideParams ==
    {a @@ b @@ c @@ d @@ e @@ f @@ g @@ h @@ i @@ j @@ k :
        a \in LibNameOpts, b \in InputPathOpts, c \in OutputPathOpts,
        d \in ProjectRootOpts, e \in DefineOpts, f \in ExternalsOpts,
        g \in LibraryOpts, h \in SourcemapOpts, i \in GlobalObjectOpts,
        j \in IgnoreCallbackOpts, k \in GatherOpts}

\* the README's usage, with and without the entry and the diagnostics
SeqParams ==
    {a @@ [inputPath |-> <<".", "index.js">>, outputPath |-> <<".", "lib">>] @@ e @@ f @@ k :
        a \in {EmptyObject, [libName |-> "libUniqueName"]},
        e \in {[define |-> (NodeEnvKey :> Str("test")) @@ [DEBUG |-> Bool("true")]]},
        f \in {[externals |-> [react |-> "React"]]},
        k \in GatherOpts}

\* argv.mode as webpack-cli passes it: absent, or one of webpack's modes
ArgvModes == {Undefined, "development", "production", "none"}

----------------------------------------------------------------------------
\* WebpackConfigBuilder: construction

NestedFields == {"define", "externals", "library"}

\* the reference held in params[f] of builder b
Ref(b, f) == <<b, f>>

\* variant: the value is returned as given, never resolved
ensureAbsolutePathAsGiven(params, value) == value

ensureAbsolutePath(params, value) ==
    IF IsAbsolute(value) THEN value ELSE PathResolve(params.projectRoot, value)

\* Object.freeze(o)
ObjectFreeze(o) == [o EXCEPT !.frozen = TRUE]

\* the objects the constructor's params refer to: the caller's, and the default {}
ConstructorHeap(b, p) ==
    [r \in {Ref(b, f) : f \in (DOMAIN p \cap NestedFields) \cup {"define"}} |->
        IF Has(p, r[2]) THEN p[r[2]] ELSE EmptyObject]

\* new WebpackConfigBuilder(p): defaults, then outputPath made absolute, then frozen
Constructor(b, p) ==
    LET byRef == [f \in DOMAIN p |-> IF f \in NestedFields THEN Ref(b, f) ELSE p[f]]
        merged == ObjectAssign(
                      [define |-> Ref(b, "define"),
                       projectRoot |-> defaultProjectRoot,
                       outputPath |-> <<".", "lib">>,
                       gatherBundleStats |-> FALSE],
                      byRef)
        resolved == [merged EXCEPT !.outputPath = ensureAbsolutePath(merged, merged.outputPath)]
    IN ObjectFreeze([constructed |-> TRUE, params |-> resolved, frozen |-> FALSE,
                     mode |-> Undefined, plugins |-> 0])

----------------------------------------------------------------------------
\* WebpackConfigBuilder: the plugin list

\* array.push(x) / array.unshift(x) on the array `id` of the array heap
Push(arrs, id, x) == [arrs EXCEPT ![id] = Append(@, x)]
Unshift(arrs, id, x) == [arrs EXCEPT ![id] = <<x>> \o @]

\* get isProduction()
isProduction(mode) == mode # "development"

\* variant: the mode is taken as given, without the default
ResolveModeNoDefault(argvMode) == argvMode

\* argv.mode || 'development'
ResolveMode(argvMode) == IF argvMode = Undefined \/ argvMode = "" THEN "development" ELSE argvMode

\* variant: this.plugins = this.plugins || [], the array of the last call is kept
ResetPluginsReuse(arrs, self) ==
    IF self.plugins # 0 THEN [arrays |-> arrs, id |-> self.plugins]
    ELSE [arrays |-> Append(arrs, << >>), id |-> Len(arrs) + 1]

\* this.plugins = []: a new array is allocated and the builder refers to it
ResetPlugins(arrs, self) ==
    [arrays |-> Append(arrs, << >>), id |-> Len(arrs) + 1]

initProvidePlugin(arrs, self) ==
    Push(arrs, self.plugins,
         [kind |-> "ProvidePlugin", options |-> [Buffer |-> <<"buffer", "Buffer">>]])

initIgnorePlugin(arrs, self) ==
    IF Has(self.params, "ignoreCallback")
    THEN Push(arrs, self.plugins,
              [kind |-> "IgnorePlugin",
               options |-> [checkResource |-> self.params.ignoreCallback]])
    ELSE arrs

\* variant: the plugin is appended (push) instead of put first (unshift)
initLoaderOptionsPluginPushed(arrs, self) ==
    Push(arrs, self.plugins,
         [kind |-> "LoaderOptionsPlugin",
          options |-> [minimize |-> isProduction(self.mode), debug |-> FALSE]])

initLoaderOptionsPlugin(arrs, self) ==
    Unshift(arrs, self.plugins,
            [kind |-> "LoaderOptionsPlugin",
             options |-> [minimize |-> isProduction(self.mode), debug |-> FALSE]
                         @@ (IF Has(self.params, "sourcemap")
                             THEN [sourceMap |-> self.params.sourcemap] ELSE EmptyObject)])

\* the variables handed to DefinePlugin: NODE_ENV first, then every entry of
\* define written over it
DefineVars(self, h) ==
    LET define == IF Has(self.params, "define") THEN h[self.params.define] ELSE EmptyObject
        initial == (NodeEnvKey :> JSONStringifyMode(self.mode))
    IN [key \in DOMAIN define |-> JSONStringify(define[key])] @@ initial

initDefinePlugin(arrs, self, h) ==
    Push(arrs, self.plugins, [kind |-> "DefinePlugin", options |-> DefineVars(self, h)])

\* variant: the duplicates plugin is created without probing for inspectpack
initBundleAnalyzerPluginUnprobed(arrs, self, canResolve) ==
    IF ~TruthyBool(self.params, "gatherBundleStats") THEN arrs
    ELSE Push(Push(arrs, self.plugins, [kind |-> "BundleAnalyzerPlugin"]),
              self.plugins, [kind |-> "DuplicatesPlugin"])

\* canResolve: whether require('inspectpack/plugin') succeeds; a failure is caught
initBundleAnalyzerPlugin(arrs, self, canResolve) ==
    IF ~TruthyBool(self.params, "gatherBundleStats") THEN arrs
    ELSE LET withAnalyzer ==
                 Push(arrs, self.plugins,
                      [kind |-> "BundleAnalyzerPlugin",
                       options |-> [analyzerMode |-> "static",
                                    reportFilename |-> "bundle-stats.html",
                                    openAnalyzer |-> FALSE]])
         IN IF canResolve
            THEN Push(withAnalyzer, self.plugins,
                      [kind |-> "DuplicatesPlugin",
                       options |-> [emitErrors |-> FALSE, ignoredPackages |-> << >>]])
            ELSE withAnalyzer

\* lines 51-56 of build: the array heap once the five init calls have run
AssemblePlugins(arrs, self, h, canResolve) ==
    LET a1 == initProvidePlugin(arrs, self)
        a2 == initIgnorePlugin(a1, self)
        a3 == initLoaderOptionsPlugin(a2, self)
        a4 == initDefinePlugin(a3, self, h)
    IN initBundleAnalyzerPlugin(a4, self, canResolve)

----------------------------------------------------------------------------
\* WebpackConfigBuilder: the sections of the configuration

MissingEntry == "No entries to process"
NoError == "none"

\* variant: only libName is required
prepareEntryLibNameOnly(params) ==
    IF FalsyString(params, "libName")
    THEN [error |-> MissingEntry]
    ELSE [error |-> NoError,
          res |-> (params.libName :> IF Has(params, "inputPath") THEN params.inputPath
                                     ELSE << >>)]

\* prepareEntry: throws, or a one-entry object keyed by libName
prepareEntry(params) ==
    IF FalsyString(params, "libName") \/ FalsyPath(params, "inputPath")
    THEN [error |-> MissingEntry]
    ELSE [error |-> NoError,
          res |-> (params.libName :> ensureAbsolutePath(params, params.inputPath))]

\* Object.assign(t, s) on two objects of the heap: t is changed in place
HeapAssign(h, t, s) == [h EXCEPT ![t] = ObjectAssign(h[t], h[s])]

Drop(h, t) == [r \in DOMAIN h \ {t} |-> h[r]]

\* prepareOutput: the section, and the heap it leaves behind
prepareOutput(h, params) ==
    LET libProps == Ref("prepareOutput", "libProps")
        h1 == (libProps :> [name |-> params.libName, type |-> "umd2", export |-> "default"]) @@ h
        h2 == IF Has(params, "library") THEN HeapAssign(h1, libProps, params.library) ELSE h1
    IN [res |-> [path |-> ensureAbsolutePath(params, params.outputPath),
                 filename |-> "[name].js",
                 library |-> h2[libProps],
                 globalObject |-> IF Has(params, "globalObject")
                                  THEN params.globalObject ELSE "globalThis",
                 clean |-> TRUE],
        heap |-> Drop(h2, libProps)]

DefaultExternals ==
    ("@stellar/stellar-sdk" :> "@stellar/stellar-sdk")
    @@ ("@stellar/stellar-base" :> "@stellar/stellar-base")

\* variant: Object.assign(this.params.externals, defaults), the caller's object
\* is the target
prepareExternalsInPlace(h, params) ==
    IF ~Has(params, "externals") THEN [res |-> DefaultExternals, heap |-> h]
    ELSE LET h1 == [h EXCEPT ![params.externals] = ObjectAssign(@, DefaultExternals)]
         IN [res |-> h1[params.externals], heap |-> h1]

\* prepareExternals: the section, and the heap it leaves behind
prepareExternals(h, params) ==
    LET res == Ref("prepareExternals", "res")
        h1 == (res :> DefaultExternals) @@ h
        h2 == IF Has(params, "externals") THEN HeapAssign(h1, res, params.externals) ELSE h1
    IN [res |-> h2[res], heap |-> Drop(h2, res)]

prepareModuleRules ==
    <<[test |-> "/\\.js?$/", loader |-> "babel-loader"],
      [test |-> "/\\.wasm$/", loader |-> "base64-loader", type |-> "javascript/auto"]>>

\* prepareMinimizerSection: undefined (no property) unless isProduction
prepareMinimizerSection(mode) ==
    IF ~isProduction(mode) THEN EmptyObject
    ELSE [minimizer |-> <<[kind |-> "TerserPlugin",
                           options |-> [terserOptions |-> [toplevel |-> TRUE]]]>>]

\* prepareSourceMapSection: undefined (no property) unless params.sourcemap
prepareSourceMapSection(params) ==
    IF TruthyBool(params, "sourcemap") THEN [devtool |-> "source-map"] ELSE EmptyObject

prepareResolveSection(params) ==
    [symlinks |-> TRUE,
     modules |-> <<PathResolve(params.projectRoot, <<"node_modules">>), <<"node_modules">>>>,
     fallback |-> [util |-> "false", http |-> "false", https |-> "false", path |-> "false",
                   fs |-> "false", url |-> "false", events |-> "events",
                   buffer |-> "buffer/", stream |-> "stream-browserify"]]

----------------------------------------------------------------------------
\* The operations

Init ==
    /\ builders = [b \in Builders |-> NoBuilder]
    /\ heap = EmptyObject
    /\ arrays = << >>
    /\ nodeEnv = Undefined
    /\ resolvable \in BOOLEAN
    /\ log = << >>
    /\ last = [op |-> "load", error |-> NoError]
    /\ params0 = [b \in Builders |-> EmptyObject]
    /\ heap0 = EmptyObject

\* module.exports
ModuleExports == {"initLibWebpackConfig", "createBabelConfig"}

\* const {name} = require('@stellar-expert/lib-webpack-template'); name(p)
\* with the resulting builder kept in slot b
Require(name, b, p) ==
    /\ ~builders[b].constructed
    /\ IF name \in ModuleExports
       THEN /\ builders' = [builders EXCEPT ![b] = Constructor(b, p)]
            /\ heap' = ConstructorHeap(b, p) @@ heap
            /\ params0' = [params0 EXCEPT ![b] = Constructor(b, p).params]
            /\ heap0' = ConstructorHeap(b, p) @@ heap0
            /\ last' = [op |-> "require", name |-> name, builder |-> b, error |-> NoError]
       ELSE /\ last' = [op |-> "require", name |-> name, builder |-> b,
                        error |-> "TypeError: " \o name \o " is not a function"]
            /\ UNCHANGED <<builders, heap, params0, heap0>>
    /\ UNCHANGED <<arrays, nodeEnv, resolvable, log>>

\* builder.build(env, argv) with argv.mode = argvMode
Build(b, argvMode) ==
    /\ builders[b].constructed
    /\ Len(log) < MaxBuilds
    /\ LET mode == ResolveMode(argvMode)
           reset == ResetPlugins(arrays, builders[b])
           self == [builders[b] EXCEPT !.mode = mode, !.plugins = reset.id]
           params == self.params
           filled == AssemblePlugins(reset.arrays, self, heap, resolvable)
           entry == prepareEntry(params)
           output == prepareOutput(heap, params)
           externals == prepareExternals(output.heap, params)
           res == [mode |-> mode,
                   entry |-> entry.res,
                   output |-> output.res,
                   module |-> [rules |-> prepareModuleRules, noParse |-> "/\\.wasm$/"],
                   plugins |-> self.plugins,
                   externals |-> externals.res,
                   resolve |-> prepareResolveSection(params),
                   resolveLoader |-> [modules |-> <<<<"node_modules">>,
                                                   <<"__dirname", "node_modules">>>>],
                   optimization |-> [moduleIds |-> "deterministic"]
                                    @@ prepareMinimizerSection(mode)]
                  @@ prepareSourceMapSection(params)
       IN /\ builders' = [builders EXCEPT ![b] = self]
          /\ nodeEnv' = mode
          /\ arrays' = filled
          /\ IF entry.error # NoError
             THEN /\ log' = Append(log, [builder |-> b, argvMode |-> argvMode,
                                         error |-> entry.error])
                  /\ heap' = heap
             ELSE /\ log' = Append(log, [builder |-> b, argvMode |-> argvMode,
                                         error |-> NoError, config |-> res,
                                         returnedPlugins |-> filled[self.plugins]])
                  /\ heap' = externals.heap
          /\ last' = [op |-> "build", builder |-> b, error |-> entry.error]
    /\ UNCHANGED <<resolvable, params0, heap0>>

\* builder.params[field] = value, from strict or sloppy code: a frozen object
\* keeps its value, and strict code gets a TypeError
AssignParam(b, field, value, strict) ==
    /\ builders[b].constructed
    /\ IF builders[b].frozen
       THEN /\ last' = [op |-> "assign", applied |-> FALSE,
                        error |-> IF strict THEN "TypeError: read only property" ELSE NoError]
            /\ UNCHANGED builders
       ELSE /\ last' = [op |-> "assign", applied |-> TRUE, error |-> NoError]
            /\ builders' = [builders EXCEPT ![b].params = (field :> value) @@ @]
    /\ UNCHANGED <<heap, arrays, nodeEnv, resolvable, log, params0, heap0>>

\* what a caller may try to assign
AssignedFields == {"libName", "gatherBundleStats"}
AssignedValue(field) == IF field = "libName" THEN "other" ELSE TRUE

RequiredNames == {"initLibWebpackConfig", "initWebpackConfig"}

\* a program that creates builders and calls them any number of times
Next ==
    \/ \E name \in RequiredNames, b \in Builders :
          ~builders[b].constructed /\ \E p \in SeqParams : Require(name, b, p)
    \/ \E b \in Builders, m \in ArgvModes : Build(b, m)
    \/ \E b \in Builders, f \in AssignedFields, strict \in BOOLEAN :
          AssignParam(b, f, AssignedValue(f), strict)

Spec == Init /\ [][Next]_vars

\* webpack-cli: the configuration file creates one builder, and the
\* function it exports is called once
NextCli ==
    \/ \E name \in RequiredNames :
          ~builders["b1"].constructed /\ \E p \in WideParams : Require(name, "b1", p)
    \/ \E m \in ArgvModes : Len(log) = 0 /\ Build("b1", m)
    \/ \E f \in AssignedFields, strict \in BOOLEAN :
          AssignParam("b1", f, AssignedValue(f), strict)

SpecCli == Init /\ [][NextCli]_vars

----------------------------------------------------------------------------
\* Vocabulary of the properties

\* the frozen parameters of the builder that call i of the log was made on
ParamsOf(i) == builders[log[i].builder].params

Succeeded(i) == log[i].error = NoError

\* the kinds of the plugins of the configuration call i returned, in order
KindsOf(i) == [n \in DOMAIN log[i].returnedPlugins |-> log[i].returnedPlugins[n].kind]

KindSet(i) == {KindsOf(i)[n] : n \in DOMAIN KindsOf(i)}

\* the mode a call resolves to: the one supplied, 'development' when absent
ResolvedMode(argvMode) == IF argvMode = Undefined THEN "development" ELSE argvMode

EntryMissing(params) ==
    \/ ~Has(params, "libName") \/ params.libName = ""
    \/ ~Has(params, "inputPath") \/ params.inputPath = << >>

\* the fixed order of the plugin kinds
PluginRank(kind) ==
    CASE kind = "LoaderOptionsPlugin" -> 0
      [] kind = "ProvidePlugin" -> 1
      [] kind = "IgnorePlugin" -> 2
      [] kind = "DefinePlugin" -> 3
      [] kind = "BundleAnalyzerPlugin" -> 4
      [] kind = "DuplicatesPlugin" -> 5

\* root joined with a relative path that has no '..': the segments of both,
\* the '.' segments dropped
Joined(root, rel) == SelectSeq(root \o rel, LAMBDA seg : seg # ".")

AbsoluteRoot(params) ==
    IF params.projectRoot[1] = "/" THEN params.projectRoot
    ELSE defaultProjectRoot \o params.projectRoot

\* the configuration of call i with its plugin array read from the array heap
Deref(i) == [log[i].config EXCEPT !.plugins = arrays[@]]

DefineOptionsOf(i) ==
    LET n == CHOOSE n \in DOMAIN log[i].returnedPlugins :
                 log[i].returnedPlugins[n].kind = "DefinePlugin"
    IN log[i].returnedPlugins[n].options

----------------------------------------------------------------------------
\* The properties

C2_EntryMap ==
    \A i \in DOMAIN log :
        ~EntryMissing(ParamsOf(i)) =>
            /\ Succeeded(i)
            /\ DOMAIN log[i].config.entry = {ParamsOf(i).libName}
            /\ LET value == log[i].config.entry[ParamsOf(i).libName]
                   input == ParamsOf(i).inputPath
               IN /\ value[1] = "/"
                  /\ input[1] = "/" => value = input
                  /\ input[1] # "/" => value = Joined(AbsoluteRoot(ParamsOf(i)), input)
                  /\ (/\ ParamsOf(i).libName = "libFoo"
                      /\ input = <<".", "index.js">>
                      /\ ParamsOf(i).projectRoot = <<"/", "proj">>)
                     => log[i].config.entry = [libFoo |-> <<"/", "proj", "index.js">>]

C2_Witness ==
    \E i \in DOMAIN log :
        /\ Succeeded(i)
        /\ ParamsOf(i).inputPath = <<".", "index.js">>
        /\ ParamsOf(i).projectRoot = <<"sub">>
        /\ log[i].config.entry = [libFoo |-> <<"/", "home", "work", "sub", "index.js">>]

\* C3: in the plugin list of every returned configuration the loader-options
\* plugin is first, the others follow in the order provide-globals,
\* ignore-resource, define-constants, bundle-analyzer, duplicate-detector, no
\* kind occurs twice, the ignore plugin is there only with an ignoreCallback
\* and the two diagnostics plugins only with gatherBundleStats.
C3_PluginOrder ==
    \A i \in DOMAIN log :
        Succeeded(i) =>
            /\ KindsOf(i)[1] = "LoaderOptionsPlugin"
            /\ \A m, n \in DOMAIN KindsOf(i) :
                   m < n => PluginRank(KindsOf(i)[m]) < PluginRank(KindsOf(i)[n])
            /\ {"LoaderOptionsPlugin", "ProvidePlugin", "DefinePlugin"} \subseteq KindSet(i)
            /\ "IgnorePlugin" \in KindSet(i) => Has(ParamsOf(i), "ignoreCallback")
            /\ "BundleAnalyzerPlugin" \in KindSet(i) => ParamsOf(i).gatherBundleStats = TRUE
            /\ "DuplicatesPlugin" \in KindSet(i) => ParamsOf(i).gatherBundleStats = TRUE

C3_Witness ==
    \E i \in DOMAIN log :
        /\ Succeeded(i)
        /\ KindsOf(i) = <<"LoaderOptionsPlugin", "ProvidePlugin", "IgnorePlugin",
                          "DefinePlugin", "BundleAnalyzerPlugin", "DuplicatesPlugin">>

\* C4: the optimization section holds a minimizer, exactly one minifier, when
\* the mode is 'production', and none for any other mode or for no mode.
C4_MinimizerInProductionOnly ==
    \A i \in DOMAIN log :
        Succeeded(i) =>
            IF ResolvedMode(log[i].argvMode) = "production"
            THEN /\ Has(log[i].config.optimization, "minimizer")
                 /\ Len(log[i].config.optimization.minimizer) = 1
            ELSE ~Has(log[i].config.optimization, "minimizer")

C6_BuildRepeatable ==
    /\ \A i, j \in DOMAIN log :
           (i < j /\ log[i].builder = log[j].builder /\ log[i].argvMode = log[j].argvMode) =>
               /\ log[i].error = log[j].error
               /\ Succeeded(i) => Deref(i) = Deref(j)
    /\ \A i \in DOMAIN log :
           Succeeded(i) =>
               /\ arrays[log[i].config.plugins] = log[i].returnedPlugins
               /\ \A m, n \in DOMAIN KindsOf(i) : KindsOf(i)[m] = KindsOf(i)[n] => m = n

C6_Witness ==
    \E i, j, k \in DOMAIN log :
        /\ i < k /\ k < j
        /\ log[i].builder = log[j].builder /\ log[k].builder = log[i].builder
        /\ log[i].argvMode = "production" /\ log[j].argvMode = "production"
        /\ log[k].argvMode = "development"
        /\ Succeeded(i) /\ Succeeded(j) /\ Succeeded(k)
        /\ Deref(i) = Deref(j) /\ Deref(i) # Deref(k)
        /\ log[i].config.plugins # log[j].config.plugins

\* C7: the name initWebpackConfig, taken from the module's exports and called
\* as the README shows, yields the configuration function of a new builder.
C7_ReadmeNameExported ==
    (last.op = "require" /\ last.name = "initWebpackConfig") =>
        /\ last.error = NoError
        /\ builders[last.builder].constructed

\* C8: the define plugin of every returned configuration defines
\* process.env.NODE_ENV as the JSON encoding of the call's resolved mode,
\* whatever define holds, and one further entry for each key of define.
C8_NodeEnvDefined ==
    \A i \in DOMAIN log :
        Succeeded(i) =>
            LET define == heap[ParamsOf(i).define] IN
            /\ DefineOptionsOf(i)[NodeEnvKey] = "\"" \o ResolvedMode(log[i].argvMode) \o "\""
            /\ Cardinality(DOMAIN DefineOptionsOf(i)) = 1 + Cardinality(DOMAIN define)

C10_LastModeWins ==
    /\ log # << >> => nodeEnv = ResolvedMode(log[Len(log)].argvMode)
    /\ \A i \in DOMAIN log :
           (\A j \in DOMAIN log : j > i => log[j].builder # log[i].builder) =>
               builders[log[i].builder].mode = ResolvedMode(log[i].argvMode)

C10_Witness ==
    /\ Len(log) = 3
    /\ log[1].builder = log[3].builder /\ log[1].builder # log[2].builder
    /\ log[1].argvMode = "development" /\ ~Succeeded(1)
    /\ log[2].argvMode = Undefined /\ Succeeded(2)
    /\ log[3].argvMode = "production" /\ ~Succeeded(3)
    /\ nodeEnv = "production"
    /\ builders[log[2].builder].mode = "development"

====
